---- MODULE Spec2Model ----
(***************************************************************************)
(* A model of the beta-carotene yield sweep                                *)
(* (src/plotting/generate_beta_carotene_yield_df.py) and of the plotter    *)
(* (src/plotting/plot_beta_carotene_and_co2_yield.py).                     *)
(*                                                                         *)
(* Python floats are IEEE-754 binary64 values.  They are modelled bit for  *)
(* bit: a float is a sign, a 53-bit significand and a binary exponent, and *)
(* every arithmetic operation computes the exact result and rounds it to   *)
(* nearest, ties to even.  Significands do not fit TLC's 32-bit integers,  *)
(* so they are kept as little-endian sequences of 15-bit limbs.            *)
(***************************************************************************)
EXTENDS Integers, Sequences, FiniteSets, TLC

(***************************************************************************)
(* Natural numbers of arbitrary size: little-endian limbs, no high zeros.  *)
(***************************************************************************)
LimbBits == 15
Base == 2 ^ LimbBits

RECURSIVE BNorm(_)
BNorm(a) ==
    IF a = <<>> THEN <<>>
    ELSE IF a[Len(a)] = 0 THEN BNorm(SubSeq(a, 1, Len(a) - 1))
    ELSE a

RECURSIVE BFromNat(_)
BFromNat(n) == IF n = 0 THEN <<>> ELSE <<n % Base>> \o BFromNat(n \div Base)

BLimb(a, i) == IF i <= Len(a) THEN a[i] ELSE 0

RECURSIVE BAddC(_, _, _)
BAddC(a, b, c) ==
    IF a = <<>> /\ b = <<>> THEN (IF c = 0 THEN <<>> ELSE <<c>>)
    ELSE LET s == BLimb(a, 1) + BLimb(b, 1) + c
         IN  <<s % Base>> \o BAddC(IF a = <<>> THEN <<>> ELSE Tail(a),
                                   IF b = <<>> THEN <<>> ELSE Tail(b),
                                   s \div Base)

BAdd(a, b) == BAddC(a, b, 0)

\* a - b - w for a >= b + w
RECURSIVE BSubB(_, _, _)
BSubB(a, b, w) ==
    IF a = <<>> THEN <<>>
    ELSE LET d == a[1] - BLimb(b, 1) - w
         IN  <<d % Base>> \o BSubB(Tail(a),
                                   IF b = <<>> THEN <<>> ELSE Tail(b),
                                   IF d < 0 THEN 1 ELSE 0)

BSub(a, b) == BNorm(BSubB(a, b, 0))

\* -1, 0, 1 as a < b, a = b, a > b; the limbs are compared from the top
RECURSIVE BCmpFrom(_, _, _)
BCmpFrom(a, b, i) ==
    IF i = 0 THEN 0
    ELSE IF a[i] < b[i] THEN -1
    ELSE IF a[i] > b[i] THEN 1
    ELSE BCmpFrom(a, b, i - 1)

BCmp(a, b) ==
    IF Len(a) < Len(b) THEN -1
    ELSE IF Len(a) > Len(b) THEN 1
    ELSE BCmpFrom(a, b, Len(a))

RECURSIVE BMulSmallC(_, _, _)
BMulSmallC(a, k, c) ==
    IF a = <<>> THEN (IF c = 0 THEN <<>> ELSE <<c>>)
    ELSE LET p == a[1] * k + c
         IN  <<p % Base>> \o BMulSmallC(Tail(a), k, p \div Base)

\* a * k for 0 <= k <= Base
BMulSmall(a, k) == BNorm(BMulSmallC(a, k, 0))

RECURSIVE BMul(_, _)
BMul(a, b) ==
    IF b = <<>> \/ a = <<>> THEN <<>>
    ELSE BAdd(BMulSmall(a, Head(b)),
              LET r == BMul(a, Tail(b)) IN IF r = <<>> THEN <<>> ELSE <<0>> \o r)

RECURSIVE IntBitLen(_)
IntBitLen(n) == IF n = 0 THEN 0 ELSE 1 + IntBitLen(n \div 2)

BitLen(a) == IF a = <<>> THEN 0 ELSE LimbBits * (Len(a) - 1) + IntBitLen(a[Len(a)])

BIsOdd(a) == a # <<>> /\ a[1] % 2 = 1

\* a * 2^n
BShl(a, n) ==
    IF a = <<>> THEN <<>>
    ELSE [i \in 1..(n \div LimbBits) |-> 0] \o BMulSmall(a, 2 ^ (n % LimbBits))

\* floor(t / 2^r) for r < LimbBits
BShrBits(t, r) ==
    BNorm([i \in 1..Len(t) |->
             (t[i] \div (2 ^ r)) + (BLimb(t, i + 1) % (2 ^ r)) * (2 ^ (LimbBits - r))])

\* floor(a / 2^n)
BShr(a, n) ==
    IF n \div LimbBits >= Len(a) THEN <<>>
    ELSE BShrBits(SubSeq(a, (n \div LimbBits) + 1, Len(a)), n % LimbBits)

\* Long division of one limb: the remainder r < b of the higher limbs is
\* extended by the bits of limb d, from bit j down; <<quotient limb, remainder>>
RECURSIVE BDivBits(_, _, _, _, _)
RECURSIVE BDivBit(_, _, _, _, _)
BDivBits(r, d, b, j, q) ==
    IF j < 0 THEN <<q, r>>
    ELSE BDivBit(BAdd(BMulSmall(r, 2), IF (d \div (2 ^ j)) % 2 = 1 THEN <<1>> ELSE <<>>),
                 d, b, j, q)

\* r2: the remainder extended by bit j
BDivBit(r2, d, b, j, q) ==
    IF BCmp(r2, b) >= 0
    THEN BDivBits(BSub(r2, b), d, b, j - 1, 2 * q + 1)
    ELSE BDivBits(r2, d, b, j - 1, 2 * q)

\* <<floor(a / b), a mod b>> for b > 0: the limbs of a from limb i down, q the
\* quotient limbs found so far and r the remainder of the limbs above i
RECURSIVE BDivLimbs(_, _, _, _, _)
RECURSIVE BDivNext(_, _, _, _, _)
BDivLimbs(a, b, i, q, r) ==
    IF i = 0 THEN <<BNorm(q), r>>
    ELSE BDivNext(a, b, i, q, BDivBits(r, a[i], b, LimbBits - 1, 0))

\* qr: the quotient limb and the remainder that limb i gave
BDivNext(a, b, i, q, qr) ==
    IF qr[2] = <<>>
    THEN BDivLimbs(a, b, i - 1, <<qr[1]>> \o q, <<>>)
    ELSE BDivLimbs(a, b, i - 1, <<qr[1]>> \o q, qr[2])

BDivMod(a, b) == BDivLimbs(a, b, Len(a), <<>>, <<>>)

\* a mod 2^n
BLow(a, n) == BSub(a, BShl(BShr(a, n), n))

(***************************************************************************)
(* Python floats.  A finite float is (-1)^sign * man * 2^exp with man = 0  *)
(* (and exp = 0) or 2^52 <= man < 2^53; cls "nan" is the not-a-number.     *)
(* The values of this program stay far from the subnormal and the overflow *)
(* ranges, so the exponent is kept unbounded.                              *)
(***************************************************************************)
MantBits == 53

Float(s, m, e) == [cls |-> "num", sign |-> s, man |-> m, exp |-> e]
NaN == [cls |-> "nan", sign |-> 0, man |-> <<>>, exp |-> 0]
IsNaN(a) == a.cls = "nan"
IsZero(a) == a.cls = "num" /\ a.man = <<>>

\* The float of significand q < 2^54 and exponent e: a carry out of the
\* rounding made q = 2^53, which is renormalised
Normal(s, q, e) ==
    IF BitLen(q) > MantBits THEN Float(s, BShr(q, 1), e + 1) ELSE Float(s, q, e)

\* q rounded up when the dropped bits are more than half a unit (c > 0), or
\* half a unit (c = 0) with q odd
RoundQuot(s, q, e, c) ==
    Normal(s, IF c > 0 \/ (c = 0 /\ BIsOdd(q)) THEN BAdd(q, <<1>>) ELSE q, e)

\* x of more than 53 bits: its low k bits are dropped
RoundShift(s, x, e, k) ==
    RoundQuot(s, BShr(x, k), e + k, BCmp(BLow(x, k), BShl(<<1>>, k - 1)))

\* x * 2^e rounded to a float: to nearest, ties to even
FRound(s, x, e) ==
    IF x = <<>> THEN Float(s, <<>>, 0)
    ELSE IF BitLen(x) <= MantBits
         THEN Float(s, BShl(x, MantBits - BitLen(x)), e - (MantBits - BitLen(x)))
         ELSE RoundShift(s, x, e, BitLen(x) - MantBits)

\* float(n) of a Python int
FromInt(n) == FRound(IF n < 0 THEN 1 ELSE 0, BFromNat(IF n < 0 THEN -n ELSE n), 0)

\* float.__mul__
FMul(a, b) ==
    IF IsNaN(a) \/ IsNaN(b) THEN NaN
    ELSE FRound((a.sign + b.sign) % 2, BMul(a.man, b.man), a.exp + b.exp)

\* 2 * quotient, plus one when the division left a remainder
Sticky(qr) == BAdd(BMulSmall(qr[1], 2), IF qr[2] = <<>> THEN <<>> ELSE <<1>>)

\* float.__truediv__ for b # 0: the quotient to 57 bits, the remainder as a sticky bit
FDiv(a, b) ==
    IF IsNaN(a) \/ IsNaN(b) THEN NaN
    ELSE FRound((a.sign + b.sign) % 2,
                Sticky(BDivMod(BShl(a.man, MantBits + 3), b.man)),
                a.exp - b.exp - (MantBits + 3) - 1)

\* xa * 2^e of sign sa plus xb * 2^e of the other sign, c comparing xa to xb
SubAligned(sa, xa, sb, xb, e, c) ==
    IF c = 0 THEN Float(0, <<>>, 0)
    ELSE IF c > 0 THEN FRound(sa, BSub(xa, xb), e)
    ELSE FRound(sb, BSub(xb, xa), e)

AddAligned(sa, xa, sb, xb, e) ==
    IF sa = sb THEN FRound(sa, BAdd(xa, xb), e)
    ELSE SubAligned(sa, xa, sb, xb, e, BCmp(xa, xb))

MinInt(m, n) == IF m < n THEN m ELSE n

\* float.__add__: the operands aligned on the smaller exponent, added exactly
FAdd(a, b) ==
    IF IsNaN(a) \/ IsNaN(b) THEN NaN
    ELSE AddAligned(a.sign, BShl(a.man, a.exp - MinInt(a.exp, b.exp)),
                    b.sign, BShl(b.man, b.exp - MinInt(a.exp, b.exp)),
                    MinInt(a.exp, b.exp))

FNeg(a) == IF IsNaN(a) THEN NaN ELSE Float(1 - a.sign, a.man, a.exp)

\* float.__sub__
FSub(a, b) == FAdd(a, FNeg(b))

\* float.__eq__: a NaN equals nothing, the two zeros are equal
FEq(a, b) ==
    /\ ~IsNaN(a)
    /\ ~IsNaN(b)
    /\ \/ IsZero(a) /\ IsZero(b)
       \/ a = b

\* float.__lt__
FLt(a, b) ==
    /\ ~IsNaN(a)
    /\ ~IsNaN(b)
    /\ FSub(a, b).man # <<>>
    /\ FSub(a, b).sign = 1

FLe(a, b) == FLt(a, b) \/ FEq(a, b)

\* The float a decimal literal n / 10^d denotes: the float nearest to it
Dec(n, d) == FDiv(FromInt(n), FromInt(10 ^ d))

(***************************************************************************)
(* generate_beta_carotene_yield_df.py: constants and arithmetic            *)
(***************************************************************************)
NumSteps == 41                         \* range(0, 41)
Step == Dec(25, 3)                     \* 0.025
glucose_molar_mass == Dec(18016, 2)    \* 180.16
oleic_acid_molar_mass == Dec(28247, 2) \* 282.47
beta_carotene_molar_mass == Dec(53687, 2) \* 536.87
co2_molar_mass == Dec(4401, 2)         \* 44.01
Thousand == FromInt(1000)
Uncapped == FromInt(10000)
Disabled == FromInt(0)

\* the loop run over range(1, 42)
GlucoseFromOne(v) == FMul(FromInt(v + 1), Step)

\* g_glucose = val * 0.025
Glucose(v) == FMul(FromInt(v), Step)

\* the complement of the next point's glucose
OleicAcidOfNext(g) == FSub(FromInt(1), FAdd(g, Step))

\* g_oleic_acid = 1 - g_glucose
OleicAcid(g) == FSub(FromInt(1), g)

\* grams over the molar mass: moles, not millimoles
GramsToMol(g, molar_mass) == FDiv(g, molar_mass)

\* 1000 * g / molar_mass
GramsToMmol(g, molar_mass) == FDiv(FMul(Thousand, g), molar_mass)

\* millimoles taken for moles
MmolAsMol(mmols, molar_mass) == FMul(mmols, molar_mass)

\* mmols / 1000 * molar_mass
MmolToGrams(mmols, molar_mass) == FMul(FDiv(mmols, Thousand), molar_mass)

\* -1 * mmol, as the f-string of the constraints evaluates it
Negated(mmol) == FMul(FromInt(-1), mmol)

EmptyDict == [k \in {} |-> NaN]

\* The keys of the medium the function writes
WrittenKeys ==
    {"EX_glc_e", "EX_ocdcea_e", "EX_glyc_e", "EX_h2o_e", "EX_h_e", "EX_nh4_e",
     "EX_o2_e", "EX_pi_e", "EX_so4_e", "trehalose_c_tp"}

\* the glycerol bound written only when the medium lacks it
WriteMediumKeepGlycerol(medium, mmol_g, mmol_o) ==
    [k \in (DOMAIN medium) \cup WrittenKeys |->
        CASE k = "EX_glc_e"       -> mmol_g
          [] k = "EX_ocdcea_e"    -> mmol_o
          [] k = "EX_glyc_e"      -> IF k \in DOMAIN medium THEN medium[k] ELSE Disabled
          [] k \in {"EX_h2o_e", "EX_h_e", "EX_nh4_e", "EX_o2_e", "EX_pi_e", "EX_so4_e"}
                                  -> Uncapped
          [] k = "trehalose_c_tp" -> Disabled
          [] OTHER                -> medium[k]]

\* the glucose bound written only once: medium.setdefault('EX_glc_e', ...)
WriteMediumGlucoseOnce(medium, mmol_g, mmol_o) ==
    [k \in (DOMAIN medium) \cup WrittenKeys |->
        CASE k = "EX_glc_e"       -> IF k \in DOMAIN medium THEN medium[k] ELSE mmol_g
          [] k = "EX_ocdcea_e"    -> mmol_o
          [] k \in {"EX_h2o_e", "EX_h_e", "EX_nh4_e", "EX_o2_e", "EX_pi_e", "EX_so4_e"}
                                  -> Uncapped
          [] k \in {"EX_glyc_e", "trehalose_c_tp"} -> Disabled
          [] OTHER                -> medium[k]]

\* medium = model.medium; the ten assignments medium[key] = value; the result,
\* which model.medium = medium writes back.  An assignment adds its key when
\* the medium lacks it and leaves every other key alone.  The int literals 0
\* and 10000 are kept as the floats they equal.
WriteMedium(medium, mmol_g, mmol_o) ==
    [k \in (DOMAIN medium) \cup WrittenKeys |->
        CASE k = "EX_glc_e"       -> mmol_g
          [] k = "EX_ocdcea_e"    -> mmol_o
          [] k = "EX_glyc_e"      -> Disabled
          [] k = "EX_h2o_e"       -> Uncapped
          [] k = "EX_h_e"         -> Uncapped
          [] k = "EX_nh4_e"       -> Uncapped
          [] k = "EX_o2_e"        -> Uncapped
          [] k = "EX_pi_e"        -> Uncapped
          [] k = "EX_so4_e"       -> Uncapped
          [] k = "trehalose_c_tp" -> Disabled
          [] OTHER                -> medium[k]]

\* f'EX_glc_e = {-1 * mmol_glucose}, EX_ocdcea_e = {-1*mmol_oleic_acid}': the
\* two equalities of the string, each with the float whose repr it prints
Constraints(mmol_g, mmol_o) ==
    << [reaction |-> "EX_glc_e", op |-> "=", value |-> Negated(mmol_g)],
       [reaction |-> "EX_ocdcea_e", op |-> "=", value |-> Negated(mmol_o)] >>

\* The locals of one iteration: the two gram amounts and their millimoles
Amounts(g, o) ==
    [g_glucose |-> g, g_oleic_acid |-> o,
     mmol_glucose |-> GramsToMmol(g, glucose_molar_mass),
     mmol_oleic_acid |-> GramsToMmol(o, oleic_acid_molar_mass)]

AmountsOf(g) == Amounts(g, OleicAcid(g))

\* for the loop value v
SweepPoint(v) == AmountsOf(Glucose(v))

\* SweepPoint, tabulated over the values of range(0, 41)
SweepPoints == [v \in 0..(NumSteps - 1) |-> SweepPoint(v)]

(***************************************************************************)
(* The external solver, sd.fba.  The repository does not hold its code: it *)
(* is a collaborator whose answer is a function of the model (its medium), *)
(* of the constraints and of its own history.  Three families of solvers   *)
(* stand for it: one that answers the same objective value V and CO2 flux  *)
(* C on every call, one whose answer reads the medium and the constraints  *)
(* it is given, and one that fails on its call number failAt, either by    *)
(* raising, by answering a solution of status "infeasible" whose values    *)
(* are NaN, or by answering fluxes without the 'EX_co2(e)' entry.          *)
(***************************************************************************)
MaxFlux == 1

FailKinds == {"raise", "infeasible", "no_co2"}

Solvers ==
    [kind : {"fixed", "reads_model"}, V : 0..MaxFlux, C : 0..MaxFlux,
     failAt : {-1}, failKind : {"none"}]
    \cup
    [kind : {"fixed"}, V : {1}, C : {1},
     failAt : 0..(NumSteps - 1), failKind : FailKinds]

\* the number of exchange reactions the medium leaves open
Open(medium) == Cardinality({k \in DOMAIN medium : ~IsZero(medium[k])})

\* the number of constraints that pin a reaction to a nonzero value
Pinned(constraints) ==
    Cardinality({i \in DOMAIN constraints : ~IsZero(constraints[i].value)})

Solution(status, objective_value, co2) ==
    [status |-> status, objective_value |-> objective_value,
     fluxes |-> ("EX_caro_e" :> objective_value) @@ ("EX_co2(e)" :> co2)]

\* sd.fba(model, obj='EX_caro_e', constraints=constraints, obj_sense='maximize')
\* as the n-th call (from 0) the solver receives
Fba(solver, medium, constraints, n) ==
    IF solver.failAt = n
    THEN CASE solver.failKind = "raise" ->
                [status |-> "raised", objective_value |-> NaN, fluxes |-> EmptyDict]
           [] solver.failKind = "infeasible" ->
                Solution("infeasible", NaN, NaN)
           [] solver.failKind = "no_co2" ->
                [status |-> "optimal", objective_value |-> FromInt(solver.V),
                 fluxes |-> ("EX_caro_e" :> FromInt(solver.V))]
    ELSE IF solver.kind = "fixed"
         THEN Solution("optimal", FromInt(solver.V), FromInt(solver.C))
         ELSE Solution("optimal",
                       FromInt(solver.V + Open(medium)),
                       FromInt(solver.C + Pinned(constraints)))

\* The values a solver of Solvers can answer
FluxValues ==
    {FromInt(n) : n \in 0..(MaxFlux + Cardinality(WrittenKeys) + 4)} \cup {NaN}

\* beta_carotene_mmols / 1000 * beta_carotene_molar_mass and
\* co2_mmols / 1000 * 44.01, tabulated over the values a solver can answer
BetaCaroteneGrams == [x \in FluxValues |-> MmolToGrams(x, beta_carotene_molar_mass)]
Co2Grams == [x \in FluxValues |-> MmolToGrams(x, co2_molar_mass)]

NoSolution == [status |-> "none", objective_value |-> NaN, fluxes |-> EmptyDict]

(***************************************************************************)
(* The model argument: a medium (exchange reaction -> uptake bound) and    *)
(* the solver that answers for it.  The media a caller may pass: an empty  *)
(* one, one that already holds the ten keys with other bounds, and one     *)
(* that holds further keys the sweep never writes.                         *)
(***************************************************************************)
PriorMedium == [k \in WrittenKeys |-> FromInt(20)]

Media ==
    { EmptyDict,
      PriorMedium,
      ("EX_fe2_e" :> FromInt(5)) @@ ("EX_k_e" :> FromInt(0)) @@ PriorMedium }

Models == [medium : Media, solver : Solvers]

\* pd.DataFrame(list of dicts): one row per dict, in list order, the columns
\* the dicts' keys
DataFrame(data) == [i \in 1..Len(data) |-> data[i]]

VARIABLES
    pc,                  \* where the program stands
    model,               \* the model argument: its medium and its solver
    initial_medium,      \* the medium the model held when the sweep was called
    val,                 \* the loop variable of the sweep, -1 before its first value
    g_glucose, g_oleic_acid,         \* locals of the sweep
    mmol_glucose, mmol_oleic_acid,   \* locals of max_beta_carotene_production_from_oleic_acid
    fba_call,            \* the arguments of the solver call in progress
    n_calls,             \* the number of solver calls made
    sol_max,             \* the solver's answer
    beta_carotene_data,  \* the rows appended so far
    result,              \* what generate_beta_carotene_yield_df gave its caller
    trace,               \* the steps of the sweep, in the order they ran
    beta_carotene_yield_df,  \* the plotter's argument
    first_point, last_point, \* the plotter's locals
    figure,              \* whether plt.figure has run
    drawn,               \* the plt.plot calls, in order
    shown                \* whether plt.show has run

sweep_vars == <<model, initial_medium, val, g_glucose, g_oleic_acid, mmol_glucose,
                mmol_oleic_acid, fba_call, n_calls, sol_max, beta_carotene_data,
                result, trace>>
plot_vars == <<beta_carotene_yield_df, first_point, last_point, figure, drawn, shown>>
vars == <<pc, sweep_vars, plot_vars>>

NoCall == [obj |-> "", constraints |-> <<>>, obj_sense |-> ""]
NoResult == [status |-> "none", beta_carotene_df |-> <<>>]

Init ==
    /\ pc = "idle"
    /\ model = [medium |-> EmptyDict, solver |-> CHOOSE s \in Solvers : TRUE]
    /\ initial_medium = EmptyDict
    /\ val = -1
    /\ g_glucose = NaN
    /\ g_oleic_acid = NaN
    /\ mmol_glucose = NaN
    /\ mmol_oleic_acid = NaN
    /\ fba_call = NoCall
    /\ n_calls = 0
    /\ sol_max = NoSolution
    /\ beta_carotene_data = <<>>
    /\ result = NoResult
    /\ trace = <<>>
    /\ beta_carotene_yield_df = <<>>
    /\ first_point = <<>>
    /\ last_point = <<>>
    /\ figure = FALSE
    /\ drawn = <<>>
    /\ shown = FALSE

(***************************************************************************)
(* generate_beta_carotene_yield_df(model)                                  *)
(***************************************************************************)
\* The call: beta_carotene_data = []
CallGenerate(m) ==
    /\ pc = "idle"
    /\ pc' = "for"
    /\ model' = m
    /\ initial_medium' = m.medium
    /\ beta_carotene_data' = <<>>
    /\ UNCHANGED <<val, g_glucose, g_oleic_acid, mmol_glucose, mmol_oleic_acid,
                   fba_call, n_calls, sol_max, result, trace, plot_vars>>

\* The loop takes its next value; the two gram amounts; then, in
\* max_beta_carotene_production_from_oleic_acid, the two millimole amounts and
\* the medium written back to the model
SetMedium ==
    /\ pc = "for"
    /\ val + 1 < NumSteps
    /\ LET p == SweepPoints[val + 1]
       IN  /\ val' = val + 1
           /\ g_glucose' = p.g_glucose
           /\ g_oleic_acid' = p.g_oleic_acid
           /\ mmol_glucose' = p.mmol_glucose
           /\ mmol_oleic_acid' = p.mmol_oleic_acid
           /\ model' = [model EXCEPT !.medium =
                           WriteMedium(model.medium, p.mmol_glucose, p.mmol_oleic_acid)]
    /\ trace' = Append(trace, <<"medium", val + 1>>)
    /\ pc' = "medium_set"
    /\ UNCHANGED <<initial_medium, fba_call, n_calls, sol_max, beta_carotene_data,
                   result, plot_vars>>

\* the solver entered twice for one point, to minimise and then to maximise
CallFbaMinAndMax ==
    /\ pc = "medium_set"
    /\ fba_call' = [obj |-> "EX_caro_e",
                    constraints |-> Constraints(mmol_glucose, mmol_oleic_acid),
                    obj_sense |-> "maximize"]
    /\ n_calls' = n_calls + 2
    /\ trace' = Append(Append(trace, <<"solve", val>>), <<"solve", val>>)
    /\ pc' = "solving"
    /\ UNCHANGED <<model, initial_medium, val, g_glucose, g_oleic_acid, mmol_glucose,
                   mmol_oleic_acid, sol_max, beta_carotene_data, result, plot_vars>>

\* The constraints string is built and sd.fba is entered
CallFba ==
    /\ pc = "medium_set"
    /\ fba_call' = [obj |-> "EX_caro_e",
                    constraints |-> Constraints(mmol_glucose, mmol_oleic_acid),
                    obj_sense |-> "maximize"]
    /\ n_calls' = n_calls + 1
    /\ trace' = Append(trace, <<"solve", val>>)
    /\ pc' = "solving"
    /\ UNCHANGED <<model, initial_medium, val, g_glucose, g_oleic_acid, mmol_glucose,
                   mmol_oleic_acid, sol_max, beta_carotene_data, result, plot_vars>>

Answer == Fba(model.solver, model.medium, fba_call.constraints, n_calls - 1)

\* sd.fba returns a solution
FbaReturn ==
    /\ pc = "solving"
    /\ Answer.status # "raised"
    /\ sol_max' = Answer
    /\ pc' = "solved"
    /\ UNCHANGED <<model, initial_medium, val, g_glucose, g_oleic_acid, mmol_glucose,
                   mmol_oleic_acid, fba_call, n_calls, beta_carotene_data, result,
                   trace, plot_vars>>

\* sd.fba raises: nothing catches it, the sweep ends with the exception
FbaRaise ==
    /\ pc = "solving"
    /\ Answer.status = "raised"
    /\ result' = [status |-> "raised", beta_carotene_df |-> <<>>]
    /\ pc' = "failed"
    /\ UNCHANGED <<model, initial_medium, val, g_glucose, g_oleic_acid, mmol_glucose,
                   mmol_oleic_acid, fba_call, n_calls, sol_max, beta_carotene_data,
                   trace, plot_vars>>

\* The row of the current point: the two gram amounts of the loop and the
\* solver's two values converted to grams
Row(g, o, sol) ==
    [g_glucose |-> g, g_oleic_acid |-> o,
     g_beta_carotene |-> BetaCaroteneGrams[sol.objective_value],
     g_co2 |-> Co2Grams[sol.fluxes["EX_co2(e)"]]]

\* The solution is converted and the row appended
AppendRow ==
    /\ pc = "solved"
    /\ "EX_co2(e)" \in DOMAIN sol_max.fluxes
    /\ beta_carotene_data' = Append(beta_carotene_data, Row(g_glucose, g_oleic_acid, sol_max))
    /\ trace' = Append(trace, <<"append", val>>)
    /\ pc' = "for"
    /\ UNCHANGED <<model, initial_medium, val, g_glucose, g_oleic_acid, mmol_glucose,
                   mmol_oleic_acid, fba_call, n_calls, sol_max, result, plot_vars>>

\* sol_max.fluxes['EX_co2(e)'] of fluxes without that key: a KeyError
Co2KeyError ==
    /\ pc = "solved"
    /\ "EX_co2(e)" \notin DOMAIN sol_max.fluxes
    /\ result' = [status |-> "raised", beta_carotene_df |-> <<>>]
    /\ pc' = "failed"
    /\ UNCHANGED <<model, initial_medium, val, g_glucose, g_oleic_acid, mmol_glucose,
                   mmol_oleic_acid, fba_call, n_calls, sol_max, beta_carotene_data,
                   trace, plot_vars>>

\* The loop is exhausted: the data frame is built and returned
ReturnFrame ==
    /\ pc = "for"
    /\ val + 1 >= NumSteps
    /\ result' = [status |-> "returned", beta_carotene_df |-> DataFrame(beta_carotene_data)]
    /\ pc' = "returned"
    /\ UNCHANGED <<model, initial_medium, val, g_glucose, g_oleic_acid, mmol_glucose,
                   mmol_oleic_acid, fba_call, n_calls, sol_max, beta_carotene_data,
                   trace, plot_vars>>

Sweep ==
    \/ \E m \in Models : CallGenerate(m)
    \/ SetMedium
    \/ CallFba
    \/ FbaReturn
    \/ FbaRaise
    \/ AppendRow
    \/ Co2KeyError
    \/ ReturnFrame

(***************************************************************************)
(* plot_beta_carotene_and_co2_yield(beta_carotene_yield_df)                *)
(***************************************************************************)
MaxRows == 2

SampleRow(g, o, b, c) == [g_glucose |-> g, g_oleic_acid |-> o, g_beta_carotene |-> b, g_co2 |-> c]

\* Rows a caller may pass
SampleRows ==
    { SampleRow(FromInt(0), FromInt(1), Dec(1, 1), Dec(5, 2)),
      SampleRow(FromInt(1), FromInt(0), Dec(9, 1), Dec(4, 1)),
      SampleRow(Dec(5, 1), Dec(5, 1), Dec(4, 1), Dec(9, 1)) }

\* The tables of at most MaxRows of these rows, the empty one included
SampleTables == UNION {[1..n -> SampleRows] : n \in 0..MaxRows}

\* df[name]: the column, in row order
Column(df, name) == [i \in 1..Len(df) |-> df[i][name]]

\* the first row whatever the index
ILocFirst(df, i) == <<df[1]>>

\* df.iloc[[i]] for i = 0 or i = -1 on a table with a row: the one-row table
ILoc(df, i) == IF i < 0 THEN <<df[Len(df) + 1 + i]>> ELSE <<df[i + 1]>>

\* plt.plot(x, y, marker='o', linestyle='-', color=..., label=...)
Series(df, name, color, label) ==
    [x |-> Column(df, "g_oleic_acid"), y |-> Column(df, name),
     marker |-> "o", linestyle |-> "-", color |-> color, label |-> label]

\* plt.plot([first x, last x], [first y, last y], color='gray', linestyle='--')
ReferenceLine(first, last, name) ==
    [x |-> <<Column(first, "g_oleic_acid")[1], Column(last, "g_oleic_acid")[1]>>,
     y |-> <<Column(first, name)[1], Column(last, name)[1]>>,
     marker |-> "", linestyle |-> "--", color |-> "gray", label |-> ""]

\* The call, on a table of the caller's or on the table the sweep returned
CallPlot(df) ==
    /\ \/ pc = "idle" /\ df \in SampleTables
       \/ pc = "returned" /\ df = result.beta_carotene_df
    /\ beta_carotene_yield_df' = df
    /\ pc' = "plot_extract"
    /\ UNCHANGED <<sweep_vars, first_point, last_point, figure, drawn, shown>>

\* first_point, last_point = df.iloc[[0]], df.iloc[[-1]]
PlotExtract ==
    /\ pc = "plot_extract"
    /\ Len(beta_carotene_yield_df) > 0
    /\ first_point' = ILoc(beta_carotene_yield_df, 0)
    /\ last_point' = ILoc(beta_carotene_yield_df, -1)
    /\ pc' = "plot_figure"
    /\ UNCHANGED <<sweep_vars, beta_carotene_yield_df, figure, drawn, shown>>

\* the figure created before the extraction fails
PlotFigureThenIndexError ==
    /\ pc = "plot_extract"
    /\ Len(beta_carotene_yield_df) = 0
    /\ figure' = TRUE
    /\ pc' = "plot_failed"
    /\ UNCHANGED <<sweep_vars, beta_carotene_yield_df, first_point, last_point, drawn, shown>>

\* df.iloc[[0]] of a table without rows: an IndexError, which nothing catches
PlotIndexError ==
    /\ pc = "plot_extract"
    /\ Len(beta_carotene_yield_df) = 0
    /\ pc' = "plot_failed"
    /\ UNCHANGED <<sweep_vars, plot_vars>>

\* plt.figure(figsize=(10, 6))
PlotFigure ==
    /\ pc = "plot_figure"
    /\ figure' = TRUE
    /\ pc' = "plot_yield"
    /\ UNCHANGED <<sweep_vars, beta_carotene_yield_df, first_point, last_point, drawn, shown>>

PlotYield ==
    /\ pc = "plot_yield"
    /\ drawn' = Append(drawn, Series(beta_carotene_yield_df, "g_beta_carotene", "blue",
                                     "Beta-Carotene Yield (g/g)"))
    /\ pc' = "plot_yield_line"
    /\ UNCHANGED <<sweep_vars, beta_carotene_yield_df, first_point, last_point, figure, shown>>

PlotYieldLine ==
    /\ pc = "plot_yield_line"
    /\ drawn' = Append(drawn, ReferenceLine(first_point, last_point, "g_beta_carotene"))
    /\ pc' = "plot_co2"
    /\ UNCHANGED <<sweep_vars, beta_carotene_yield_df, first_point, last_point, figure, shown>>

PlotCo2 ==
    /\ pc = "plot_co2"
    /\ drawn' = Append(drawn, Series(beta_carotene_yield_df, "g_co2", "green",
                                     "CO2 Loss (g/g)"))
    /\ pc' = "plot_co2_line"
    /\ UNCHANGED <<sweep_vars, beta_carotene_yield_df, first_point, last_point, figure, shown>>

PlotCo2Line ==
    /\ pc = "plot_co2_line"
    /\ drawn' = Append(drawn, ReferenceLine(first_point, last_point, "g_co2"))
    /\ pc' = "plot_show"
    /\ UNCHANGED <<sweep_vars, beta_carotene_yield_df, first_point, last_point, figure, shown>>

\* title, axis labels, legend, plt.show()
PlotShow ==
    /\ pc = "plot_show"
    /\ shown' = TRUE
    /\ pc' = "plot_done"
    /\ UNCHANGED <<sweep_vars, beta_carotene_yield_df, first_point, last_point, figure, drawn>>

Plot ==
    \/ \E df \in SampleTables \cup {result.beta_carotene_df} : CallPlot(df)
    \/ PlotExtract
    \/ PlotIndexError
    \/ PlotFigure
    \/ PlotYield
    \/ PlotYieldLine
    \/ PlotCo2
    \/ PlotCo2Line
    \/ PlotShow

Next == Sweep \/ Plot

Spec == Init /\ [][Next]_vars

(***************************************************************************)
(* What the description of the program expects, computed from its own      *)
(* words and not from the definitions above.                               *)
(***************************************************************************)
Zero == FromInt(0)
One == FromInt(1)

\* glucose_grams(i) = i * 0.025 and oleic_acid_grams(i) = 1 - glucose_grams(i)
ExpectedGlucose == [i \in 0..40 |-> FMul(FromInt(i), Dec(25, 3))]
ExpectedOleicAcid == [i \in 0..40 |-> FSub(One, FMul(FromInt(i), Dec(25, 3)))]

\* 1000 * glucose_grams(i) / 180.16 and 1000 * oleic_acid_grams(i) / 282.47
ExpectedGlucoseBound ==
    [i \in 0..40 |-> FDiv(FMul(FromInt(1000), ExpectedGlucose[i]), Dec(18016, 2))]
ExpectedOleicAcidBound ==
    [i \in 0..40 |-> FDiv(FMul(FromInt(1000), ExpectedOleicAcid[i]), Dec(28247, 2))]

\* V / 1000 * 536.87 and C / 1000 * 44.01 for the values a solver can answer
ExpectedBetaCaroteneGrams ==
    [x \in FluxValues |-> FMul(FDiv(x, FromInt(1000)), Dec(53687, 2))]
ExpectedCo2Grams ==
    [x \in FluxValues |-> FMul(FDiv(x, FromInt(1000)), Dec(4401, 2))]

\* The sweep is in an iteration, or between two: its locals hold a point
InSweep == pc \in {"medium_set", "solving", "solved"} \/ (pc = "for" /\ val >= 0)

\* Every solver call of this run succeeds
SolverSucceeds == model.solver.failAt = -1

(***************************************************************************)
(* C1: when every solver call succeeds, the returned table has exactly 41  *)
(* rows, row i holds glucose_grams = i * 0.025, the glucose column is      *)
(* strictly increasing, row 0 is (glucose 0.0, oleic acid 1.0) and row 40  *)
(* is (glucose 1.0, oleic acid 0.0).                                       *)
(***************************************************************************)
C1_Table ==
    /\ (pc = "for" /\ val >= 0 /\ SolverSucceeds) =>
          /\ Len(beta_carotene_data) = val + 1
          /\ beta_carotene_data[val + 1].g_glucose = ExpectedGlucose[val]
    /\ (pc = "returned" /\ SolverSucceeds) =>
        LET df == result.beta_carotene_df
        IN  /\ result.status = "returned"
            /\ Len(df) = 41
            /\ \A i \in 1..41 : df[i].g_glucose = ExpectedGlucose[i - 1]
            /\ \A i \in 1..40 : FLt(df[i].g_glucose, df[i + 1].g_glucose)
            /\ df[1].g_glucose = Zero /\ df[1].g_oleic_acid = One
            /\ df[41].g_glucose = One /\ df[41].g_oleic_acid = Zero

C1_Witness == pc = "returned" /\ SolverSucceeds /\ Len(result.beta_carotene_df) = 41

(***************************************************************************)
(* C2: at every point of the sweep, and for every row appended so far,     *)
(* glucose_grams + oleic_acid_grams == 1.0 and both lie in [0, 1].         *)
(***************************************************************************)
UnitPair(g, o) ==
    /\ FEq(FAdd(g, o), One)
    /\ FLe(Zero, g) /\ FLe(g, One)
    /\ FLe(Zero, o) /\ FLe(o, One)

\* The pairs of gram amounts the loop computes, and those of them that are
\* unit pairs: UnitPair, evaluated once for each pair
SweepPairs == {<<SweepPoints[v].g_glucose, SweepPoints[v].g_oleic_acid>> : v \in DOMAIN SweepPoints}
UnitPairs == {p \in SweepPairs : UnitPair(p[1], p[2])}

C2_SumIsOne ==
    /\ InSweep => <<g_glucose, g_oleic_acid>> \in UnitPairs
    /\ \A i \in 1..Len(beta_carotene_data) :
          <<beta_carotene_data[i].g_glucose, beta_carotene_data[i].g_oleic_acid>> \in UnitPairs

\* a point of the sweep where neither amount is 0 or 1 and the exact sum of
\* the two floats is not 1: glucose 0.35, oleic acid 0.6499999999999999
C2_Witness ==
    /\ pc = "for"
    /\ val = 14
    /\ Len(beta_carotene_data) = 15
    /\ g_oleic_acid # ExpectedOleicAcid[13]
    /\ FLt(g_oleic_acid, Dec(65, 2))

(***************************************************************************)
(* C3: with a solver that answers the same objective value V and the same  *)
(* CO2 flux C on every call, every row holds beta_carotene_grams =         *)
(* V / 1000 * 536.87 and co2_grams = C / 1000 * 44.01, and the returned    *)
(* table has 41 such rows.                                                 *)
(***************************************************************************)
FixedStub == model.solver.kind = "fixed" /\ SolverSucceeds

C3_FixedStub ==
    (FixedStub /\ pc # "idle") =>
        /\ \A i \in 1..Len(beta_carotene_data) :
              /\ beta_carotene_data[i].g_beta_carotene
                    = ExpectedBetaCaroteneGrams[FromInt(model.solver.V)]
              /\ beta_carotene_data[i].g_co2 = ExpectedCo2Grams[FromInt(model.solver.C)]
        /\ pc = "returned" =>
              /\ Len(result.beta_carotene_df) = 41
              /\ \A i \in 1..41 : result.beta_carotene_df[i] \in
                    {r \in [g_glucose : {ExpectedGlucose[i - 1]},
                            g_oleic_acid : {ExpectedOleicAcid[i - 1]},
                            g_beta_carotene : {ExpectedBetaCaroteneGrams[FromInt(model.solver.V)]},
                            g_co2 : {ExpectedCo2Grams[FromInt(model.solver.C)]}] : TRUE}

C3_Witness ==
    /\ pc = "returned"
    /\ FixedStub
    /\ model.solver.V = 1
    /\ model.solver.C = 1
    /\ Len(result.beta_carotene_df) = 41
    /\ ~IsZero(result.beta_carotene_df[41].g_beta_carotene)

(***************************************************************************)
(* C4: if at a sweep point k the solver reports infeasibility or answers   *)
(* without a CO2 flux entry, the sweep ends in a hard failure: no table is *)
(* returned, no solver call is made for a point after k and point k is     *)
(* not solved again (the calls made are those of the points 0..k).         *)
(***************************************************************************)
C4_HardFailure ==
    (pc # "idle" /\ model.solver.failAt >= 0) =>
        /\ result.status # "returned"
        /\ n_calls <= model.solver.failAt + 1
        /\ val <= model.solver.failAt

(***************************************************************************)
(* C5: while the solver is called for step i, the medium's glucose bound   *)
(* is 1000 * glucose_grams(i) / 180.16, its oleic acid bound is            *)
(* 1000 * oleic_acid_grams(i) / 282.47, and the two equality constraints   *)
(* pin EX_glc_e and EX_ocdcea_e to the negations of these values; at step  *)
(* 0 the bounds are 0 and 1000/282.47, at step 40 1000/180.16 and 0.       *)
(***************************************************************************)
PureGlucoseBound == FDiv(FromInt(1000), Dec(18016, 2))
PureOleicAcidBound == FDiv(FromInt(1000), Dec(28247, 2))

C5_Bounds ==
    pc = "solving" =>
        /\ model.medium["EX_glc_e"] = ExpectedGlucoseBound[val]
        /\ model.medium["EX_ocdcea_e"] = ExpectedOleicAcidBound[val]
        /\ Len(fba_call.constraints) = 2
        /\ fba_call.constraints[1].reaction = "EX_glc_e"
        /\ fba_call.constraints[1].op = "="
        /\ fba_call.constraints[1].value = FNeg(ExpectedGlucoseBound[val])
        /\ fba_call.constraints[2].reaction = "EX_ocdcea_e"
        /\ fba_call.constraints[2].op = "="
        /\ fba_call.constraints[2].value = FNeg(ExpectedOleicAcidBound[val])
        /\ val = 0 => /\ model.medium["EX_glc_e"] = Zero
                      /\ model.medium["EX_ocdcea_e"] = PureOleicAcidBound
        /\ val = 40 => /\ model.medium["EX_glc_e"] = PureGlucoseBound
                       /\ model.medium["EX_ocdcea_e"] = Zero

\* the solver call of the last step, on a model whose medium held other bounds
C5_Witness ==
    /\ pc = "solving"
    /\ val = 40
    /\ initial_medium = PriorMedium
    /\ model.medium["EX_glc_e"] = PureGlucoseBound

(***************************************************************************)
(* C6: for a table with at least one row, each of the two reference lines  *)
(* the plotter draws has as its endpoints (oleic acid grams, value) of the *)
(* table's first row and of its last row; for the table                    *)
(* [(0, 1, 0.1, 0.05), (1, 0, 0.9, 0.4)] the yield line connects (1, 0.1)  *)
(* to (0, 0.9).                                                            *)
(***************************************************************************)
ExampleTable ==
    << [g_glucose |-> Zero, g_oleic_acid |-> One,
        g_beta_carotene |-> Dec(1, 1), g_co2 |-> Dec(5, 2)],
       [g_glucose |-> One, g_oleic_acid |-> Zero,
        g_beta_carotene |-> Dec(9, 1), g_co2 |-> Dec(4, 1)] >>

ExampleYieldLine == [x |-> <<One, Zero>>, y |-> <<Dec(1, 1), Dec(9, 1)>>]

Endpoints(df, name) ==
    [x |-> <<df[1].g_oleic_acid, df[Len(df)].g_oleic_acid>>,
     y |-> <<df[1][name], df[Len(df)][name]>>]

C6_ReferenceLines ==
    /\ Len(drawn) >= 2 =>
          /\ Len(beta_carotene_yield_df) >= 1
          /\ [x |-> drawn[2].x, y |-> drawn[2].y]
                = Endpoints(beta_carotene_yield_df, "g_beta_carotene")
          /\ beta_carotene_yield_df = ExampleTable =>
                [x |-> drawn[2].x, y |-> drawn[2].y] = ExampleYieldLine
    /\ Len(drawn) >= 4 =>
          [x |-> drawn[4].x, y |-> drawn[4].y] = Endpoints(beta_carotene_yield_df, "g_co2")
    /\ pc = "plot_done" => Len(drawn) = 4

C6_Witness ==
    /\ pc = "plot_done"
    /\ beta_carotene_yield_df = ExampleTable
    /\ Len(drawn) = 4
    /\ drawn[2].x # drawn[2].y

(***************************************************************************)
(* C7: a sweep that returns has made exactly 41 solver calls, one after    *)
(* the other in the order of the steps 0..40; at each step the medium is   *)
(* written, then the solver is called, then the row is appended, and the   *)
(* medium of the next step is written only after that.                     *)
(***************************************************************************)
StepKinds == <<"medium", "solve", "append">>

Schedule == [j \in 1..(3 * 41) |-> <<StepKinds[((j - 1) % 3) + 1], (j - 1) \div 3>>]

Solves(t) == Cardinality({j \in 1..Len(t) : t[j][1] = "solve"})

C7_Sequential ==
    /\ Len(trace) <= 3 * 41
    /\ \A j \in 1..Len(trace) : trace[j] = Schedule[j]
    /\ n_calls = Solves(trace)
    /\ pc = "medium_set" => Len(beta_carotene_data) = val /\ n_calls = val
    /\ pc = "returned" =>
          /\ n_calls = 41
          /\ Len(trace) = 3 * 41
          /\ Len(result.beta_carotene_df) = 41

C7_Witness ==
    /\ pc = "returned"
    /\ n_calls = 41
    /\ trace[3 * 41] = <<"append", 40>>
    /\ trace[3 * 41 - 3] = <<"append", 39>>

(***************************************************************************)
(* C8: while the solver is called, whatever the step and whatever the      *)
(* medium held before the sweep, EX_glyc_e and trehalose_c_tp are 0,       *)
(* EX_h2o_e, EX_h_e, EX_nh4_e, EX_o2_e, EX_pi_e and EX_so4_e are 10000,    *)
(* and between two sweep points only the glucose and oleic acid bounds     *)
(* change.                                                                 *)
(***************************************************************************)
DisabledKeys == {"EX_glyc_e", "trehalose_c_tp"}
UncappedKeys == {"EX_h2o_e", "EX_h_e", "EX_nh4_e", "EX_o2_e", "EX_pi_e", "EX_so4_e"}
SubstrateKeys == {"EX_glc_e", "EX_ocdcea_e"}

C8_State ==
    pc = "solving" =>
        /\ DisabledKeys \cup UncappedKeys \cup SubstrateKeys \subseteq DOMAIN model.medium
        /\ \A k \in DisabledKeys : model.medium[k] = FromInt(0)
        /\ \A k \in UncappedKeys : model.medium[k] = FromInt(10000)

C8_Step ==
    (pc \in {"for", "solving"} /\ val >= 0 /\ pc' = "medium_set") =>
        /\ DOMAIN model'.medium = DOMAIN model.medium
        /\ \A k \in DOMAIN model.medium \ SubstrateKeys : model'.medium[k] = model.medium[k]

C8_Sentinels == [](C8_State) /\ [][C8_Step]_vars

\* a solver call on a medium that held other bounds for the ten keys
C8_Witness ==
    /\ pc = "solving"
    /\ val = 7
    /\ initial_medium = PriorMedium
    /\ model.medium["EX_glyc_e"] # initial_medium["EX_glyc_e"]
    /\ model.medium["EX_o2_e"] # initial_medium["EX_o2_e"]

(***************************************************************************)
(* C9: the medium and the constraints the solver sees at step i are those  *)
(* a fresh configuration for step i gives: a function of i and of the      *)
(* entries of the initial medium other than the ten written keys, which    *)
(* stay as they were.  The rows are those of a sweep that builds a fresh   *)
(* medium for every call, and after a returned sweep the model's medium is *)
(* the configuration of step 40.                                           *)
(***************************************************************************)
FreshMedium(i, initial) ==
    [k \in (DOMAIN initial) \cup DisabledKeys \cup UncappedKeys \cup SubstrateKeys |->
        IF k = "EX_glc_e" THEN ExpectedGlucoseBound[i]
        ELSE IF k = "EX_ocdcea_e" THEN ExpectedOleicAcidBound[i]
        ELSE IF k \in DisabledKeys THEN FromInt(0)
        ELSE IF k \in UncappedKeys THEN FromInt(10000)
        ELSE initial[k]]

FreshConstraints(i) ==
    << [reaction |-> "EX_glc_e", op |-> "=", value |-> FNeg(ExpectedGlucoseBound[i])],
       [reaction |-> "EX_ocdcea_e", op |-> "=", value |-> FNeg(ExpectedOleicAcidBound[i])] >>

FreshAnswer(solver, initial, i) ==
    Fba(solver, FreshMedium(i, initial), FreshConstraints(i), i)

FreshRow(solver, initial, i) ==
    [g_glucose |-> ExpectedGlucose[i], g_oleic_acid |-> ExpectedOleicAcid[i],
     g_beta_carotene |-> ExpectedBetaCaroteneGrams[FreshAnswer(solver, initial, i).objective_value],
     g_co2 |-> ExpectedCo2Grams[FreshAnswer(solver, initial, i).fluxes["EX_co2(e)"]]]

C9_NoLeak ==
    /\ pc = "solving" =>
          /\ model.medium = FreshMedium(val, initial_medium)
          /\ fba_call.constraints = FreshConstraints(val)
    /\ (pc = "for" /\ val >= 0) =>
          /\ Len(beta_carotene_data) = val + 1
          /\ beta_carotene_data[val + 1] = FreshRow(model.solver, initial_medium, val)
    /\ pc = "returned" =>
          /\ Len(result.beta_carotene_df) = 41
          /\ \A i \in 1..41 :
                result.beta_carotene_df[i] = FreshRow(model.solver, initial_medium, i - 1)
          /\ model.medium = FreshMedium(40, initial_medium)

\* a returned sweep whose solver reads the medium and the constraints, on a
\* model whose medium held further keys: the answers differ between points
C9_Witness ==
    /\ pc = "returned"
    /\ model.solver.kind = "reads_model"
    /\ "EX_fe2_e" \in DOMAIN initial_medium
    /\ model.medium["EX_fe2_e"] = FromInt(5)
    /\ result.beta_carotene_df[1].g_beta_carotene # result.beta_carotene_df[21].g_beta_carotene
    /\ result.beta_carotene_df[41].g_co2 # result.beta_carotene_df[21].g_co2

(***************************************************************************)
(* C10: on an empty table the plotter fails at the extraction of the first *)
(* and last points, before a figure is created, a series is drawn or the   *)
(* chart is shown; and on any table the plotter leaves the table as it     *)
(* was given.                                                              *)
(***************************************************************************)
PlotPcs ==
    {"plot_extract", "plot_failed", "plot_figure", "plot_yield", "plot_yield_line",
     "plot_co2", "plot_co2_line", "plot_show", "plot_done"}

C10_State ==
    (pc \in PlotPcs /\ Len(beta_carotene_yield_df) = 0) =>
        /\ pc \in {"plot_extract", "plot_failed"}
        /\ ~figure
        /\ drawn = <<>>
        /\ ~shown

C10_Step ==
    /\ (pc = "plot_extract" /\ Len(beta_carotene_yield_df) = 0) => pc' = "plot_failed"
    /\ pc \in PlotPcs =>
          /\ beta_carotene_yield_df' = beta_carotene_yield_df
          /\ result' = result
    /\ (pc = "returned" /\ pc' = "plot_extract") =>
          /\ beta_carotene_yield_df' = result.beta_carotene_df
          /\ result' = result

C10_EmptyTable == [](C10_State) /\ [][C10_Step]_vars

C10_Witness == pc = "plot_failed" /\ beta_carotene_yield_df = <<>> /\ ~figure

====
